---- MODULE Spec2Model ----
(***************************************************************************)
(* Cloud Insight AI dashboard: how a fetched report snapshot               *)
(* (final_report.json) is turned into the signals the dashboard shows.     *)
(*                                                                         *)
(* The repository holds several revisions of the dashboard script.  Each   *)
(* signal is modelled from the revision that computes it:                  *)
(*   overall status label      src/script.js 828-842   (updateStatus)      *)
(*   cost / log status dots    src/script.js 71-87                         *)
(*   trend class and symbol    src/script.js 527-549, 609-614              *)
(*   log health                src/unnamed/part_000 195-220                *)
(*   recommendations           src/script.js 269-287                       *)
(*   top errors                src/script.js 207-240                       *)
(*   severity counts, drill-downs src/script.js 89-205                     *)
(*   cost breakdown chart      src/script.js 289-337                       *)
(*   change list               src/unnamed/part_000 67-83                  *)
(*   refresh cycle, banner, overlay, timer  src/script.js 22-36, 343-374   *)
(*                                                                         *)
(* An optional JSON field is a sequence of length at most one: <<>> is an  *)
(* absent (undefined or null) field and <<v>> a field holding v.           *)
(***************************************************************************)
EXTENDS Integers, Sequences, FiniteSets

VARIABLES
    response,       \* the parsed report awaiting updateDashboard, or <<>>
    config,         \* critical_log_count of the loaded config.json, or <<>>
    dashboardData,  \* window.dashboardData: <<>> before the first render
    elements,       \* what the DOM elements show
    history,        \* what the previous render showed (for two-snapshot claims)
    modal,          \* the open drill-down modal, or <<>>
    errorMessage,   \* the error banner: <<>> when hidden, else its message
    outcome,        \* how the last operation ended
    pending,        \* the fetchDashboardData calls in flight, by call number
    started,        \* how many fetchDashboardData calls were made
    loadingOverlay, \* style.display of the loading overlay
    autoRefreshInterval,  \* the variable of that name: <<>> or a timer id
    timers,         \* the interval timers that are active
    autoRefreshToggle,    \* whether the auto-refresh checkbox is checked
    observed        \* which calls settled, rendered, and what was toggled

\* what only the asynchronous refresh cycle changes
timing == <<pending, started, loadingOverlay, autoRefreshInterval, timers,
            autoRefreshToggle, observed>>

vars == <<response, config, dashboardData, elements, history, modal,
          errorMessage, outcome, pending, started, loadingOverlay,
          autoRefreshInterval, timers, autoRefreshToggle, observed>>

----------------------------------------------------------------------------
(* Bounds of the model *)

\* largest error_count of a snapshot
MaxCount == 6
\* largest count of one log_levels key
MaxLevel == 2
\* a critical_log_count that config.json may configure
SampleThreshold == 2
\* largest magnitude of cost_trend.change_percentage
MaxChange == 2
\* longest recommendations sequence
MaxRecs == 3
\* most error_details entries appended to a seed sequence
MaxTail == 3
\* the positive count a severity has in the snapshots of a session
DrillCount == 3
\* most change blocks followed on the page
MaxBlocks == 3
\* most fetchDashboardData calls of a page
MaxFetches == 3
\* most interval timers a page creates
MaxTimers == 3
\* how far below 0 and above 100 a health_score of a snapshot lies
ScoreMargin == 2

----------------------------------------------------------------------------
(* Optional values and the JavaScript operators applied to them *)

None == <<>>

Some(v) == <<v>>

Has(o) == o # <<>>

Opt(S) == {None} \cup {Some(v) : v \in S}

\* `x || 0` on a number or an absent value
OrZero(o) == IF Has(o) THEN o[1] ELSE 0

\* `x > n`: a comparison with undefined is false
Greater(o, n) == Has(o) /\ o[1] > n

\* `x === s`
StrictEq(o, s) == Has(o) /\ o[1] = s

\* `obj?.key`
Field(o, key) == IF Has(o) THEN o[1][key] ELSE None

\* `x || dflt` on a string or an absent value: the empty string is falsy
OrString(o, dflt) == IF Has(o) /\ o[1] # "" THEN o[1] ELSE dflt

\* `x ?? dflt`: only undefined and null take the default
Coalesce(o, dflt) == IF Has(o) THEN o[1] ELSE dflt

Min(a, b) == IF a < b THEN a ELSE b

\* the sequences over S of length at most n
RECURSIVE SeqsUpTo(_, _)
SeqsUpTo(S, n) ==
    IF n = 0 THEN {<<>>}
    ELSE LET shorter == SeqsUpTo(S, n - 1)
         IN  shorter \cup {Append(q, x) : q \in shorter, x \in S}

----------------------------------------------------------------------------
(* The report snapshot *)

Absent ==
    [sentiment |-> None, error_count |-> None, cost_health |-> None,
     log_levels |-> None, cost_trend |-> None, trend |-> None,
     log_health_status |-> None, health_score |-> None,
     health_reason |-> None, recommendations |-> None,
     error_details |-> None, warning_details |-> None,
     info_details |-> None, cost_breakdown |-> None,
     changes_since_last |-> None, timestamp |-> None, run_mode |-> None]

LogLevels(C, E, W, I) ==
    [critical : Opt(C), error : Opt(E), warning : Opt(W), info : Opt(I)]

----------------------------------------------------------------------------
(* Overall status label *)

CriticalThreshold == 5

updateStatusGap(sentiment, errorCount) ==
    LET degraded == StrictEq(sentiment, "Negative")
                    \/ (Greater(errorCount, 0) /\ ~Greater(errorCount, 4))
        critical == Greater(errorCount, CriticalThreshold)
    IN  [textContent |-> IF critical THEN "Critical"
                         ELSE IF degraded THEN "Degraded" ELSE "Healthy",
         className   |-> IF degraded THEN "sentiment-negative"
                         ELSE "sentiment-positive"]

updateStatusInclusive(sentiment, errorCount) ==
    LET degraded == StrictEq(sentiment, "Negative") \/ Greater(errorCount, 0)
        critical == Greater(errorCount, CriticalThreshold - 1)
    IN  [textContent |-> IF critical THEN "Critical"
                         ELSE IF degraded THEN "Degraded" ELSE "Healthy",
         className   |-> IF degraded THEN "sentiment-negative"
                         ELSE "sentiment-positive"]

updateStatus(sentiment, errorCount) ==
    LET statusText0  == "Healthy"
        colorClass0  == "sentiment-positive"
        degraded     == StrictEq(sentiment, "Negative") \/ Greater(errorCount, 0)
        statusText1  == IF degraded THEN "Degraded" ELSE statusText0
        colorClass1  == IF degraded THEN "sentiment-negative" ELSE colorClass0
        statusText2  == IF Greater(errorCount, CriticalThreshold)
                        THEN "Critical" ELSE statusText1
    IN  [textContent |-> statusText2, className |-> colorClass1]

----------------------------------------------------------------------------
(* Cost and log status dots *)

updateStatusIndicatorsWarningWins(costHealth, logLevels) ==
    LET criticals == OrZero(Field(logLevels, "critical"))
        warnings  == OrZero(Field(logLevels, "warning"))
        cost1 == IF StrictEq(costHealth, "warning") THEN "yellow" ELSE "green"
        cost2 == IF StrictEq(costHealth, "critical") THEN "red" ELSE cost1
        log1  == IF criticals > 0 THEN "red" ELSE "green"
        log2  == IF warnings > 0 THEN "yellow" ELSE log1
    IN  [costStatus |-> cost2, logStatus |-> log2]

updateStatusIndicatorsFailClosed(costHealth, logLevels) ==
    LET criticals == OrZero(Field(logLevels, "critical"))
        warnings  == OrZero(Field(logLevels, "warning"))
        cost1 == IF StrictEq(costHealth, "ok") THEN "green" ELSE "red"
        cost2 == IF StrictEq(costHealth, "warning") THEN "yellow" ELSE cost1
        log1  == IF warnings > 0 THEN "yellow" ELSE "green"
        log2  == IF criticals > 0 THEN "red" ELSE log1
    IN  [costStatus |-> cost2, logStatus |-> log2]

updateStatusIndicatorsManyWarnings(costHealth, logLevels) ==
    LET criticals == OrZero(Field(logLevels, "critical"))
        warnings  == OrZero(Field(logLevels, "warning"))
        cost1 == IF StrictEq(costHealth, "warning") THEN "yellow" ELSE "green"
        cost2 == IF StrictEq(costHealth, "critical") THEN "red" ELSE cost1
        log1  == IF warnings > 1 THEN "yellow" ELSE "green"
        log2  == IF criticals > 0 THEN "red" ELSE log1
    IN  [costStatus |-> cost2, logStatus |-> log2]

updateStatusIndicators(costHealth, logLevels) ==
    LET criticals == OrZero(Field(logLevels, "critical"))
        warnings  == OrZero(Field(logLevels, "warning"))
        cost0 == "green"
        cost1 == IF StrictEq(costHealth, "warning") THEN "yellow" ELSE cost0
        cost2 == IF StrictEq(costHealth, "critical") THEN "red" ELSE cost1
        log0  == "green"
        log1  == IF warnings > 0 THEN "yellow" ELSE log0
        log2  == IF criticals > 0 THEN "red" ELSE log1
    IN  [costStatus |-> cost2, logStatus |-> log2]

----------------------------------------------------------------------------
(* Executive summary and trend *)

CostTrends(T, P) == [total_cost : Opt(T), change_percentage : Opt(P)]

\* Object.values(obj).reduce((a, b) => a + b, 0) over the keys obj holds
RECURSIVE sumValues(_, _)
sumValues(obj, keys) ==
    IF keys = {} THEN 0
    ELSE LET k == CHOOSE key \in keys : TRUE
         IN  (IF Has(obj[k]) THEN obj[k][1] ELSE 0)
                + sumValues(obj, keys \ {k})

updateExecutiveSummary(data) ==
    LET totalCost  == OrZero(Field(data.cost_trend, "total_cost"))
        costChange == OrZero(Field(data.cost_trend, "change_percentage"))
        totalLogs  == IF Has(data.log_levels)
                      THEN sumValues(data.log_levels[1],
                                     DOMAIN data.log_levels[1])
                      ELSE 0
        errorCount == OrZero(Field(data.log_levels, "critical"))
                      + OrZero(Field(data.log_levels, "error"))
    IN  [totalCost  |-> totalCost,
         costChange |-> costChange,
         trendClass |-> IF costChange > 0 THEN "up" ELSE "down",
         trendSign  |-> IF costChange > 0 THEN "+" ELSE "",
         totalLogs  |-> totalLogs,
         errorCount |-> errorCount]

updateTrend(trend) ==
    LET symbol0 == "neutral"
        symbol1 == IF StrictEq(trend, "up") THEN "up" ELSE symbol0
        symbol2 == IF StrictEq(trend, "down") THEN "down" ELSE symbol1
    IN  symbol2

----------------------------------------------------------------------------
(* Severity counts and their click handlers *)

\* one count element: the text is always set, the handler only for a
\* positive count; a handler set by an earlier render is never removed
countElement(old, count, handler) ==
    [textContent |-> count,
     onclick     |-> IF count > 0
                     THEN Some([handler |-> handler, count |-> count])
                     ELSE old.onclick]

\* the error count shows critical + error, as updateExecutiveSummary's does
updateLogLevelsErrorTotal(counts, levels) ==
    LET criticalCount == OrZero(Field(levels, "critical"))
        errorCount    == OrZero(Field(levels, "critical"))
                         + OrZero(Field(levels, "error"))
        warningCount  == OrZero(Field(levels, "warning"))
        infoCount     == OrZero(Field(levels, "info"))
    IN  [criticalCount |-> countElement(counts.criticalCount, criticalCount,
                                        "showErrorDetails"),
         errorCount    |-> countElement(counts.errorCount, errorCount,
                                        "showErrorDetails"),
         warningCount  |-> countElement(counts.warningCount, warningCount,
                                        "showWarningDetails"),
         infoCount     |-> countElement(counts.infoCount, infoCount,
                                        "showInfoDetails")]

\* `counts` are the four count elements as the previous render left them
updateLogLevels(counts, levels) ==
    LET criticalCount == OrZero(Field(levels, "critical"))
        errorCount    == OrZero(Field(levels, "error"))
        warningCount  == OrZero(Field(levels, "warning"))
        infoCount     == OrZero(Field(levels, "info"))
    IN  [criticalCount |-> countElement(counts.criticalCount, criticalCount,
                                        "showErrorDetails"),
         errorCount    |-> countElement(counts.errorCount, errorCount,
                                        "showErrorDetails"),
         warningCount  |-> countElement(counts.warningCount, warningCount,
                                        "showWarningDetails"),
         infoCount     |-> countElement(counts.infoCount, infoCount,
                                        "showInfoDetails")]

----------------------------------------------------------------------------
(* Log health *)

DefaultScore == 50

HealthyScore == 80

DegradedScore == 50

MaxScore == 100

updateLogHealthStrict(status, windowData) ==
    LET healthScore  == Coalesce(windowData.health_score, DefaultScore)
        healthReason == Coalesce(windowData.health_reason, "No data available")
        band == IF healthScore > HealthyScore THEN "healthy"
                ELSE IF healthScore < DegradedScore THEN "degraded"
                ELSE "stable"
    IN  [healthStatus   |-> [textContent |-> OrString(status, "Stable"),
                             title |-> [score |-> healthScore,
                                        reason |-> healthReason]],
         healthEmoji    |-> IF band = "healthy" THEN "smiling"
                            ELSE IF band = "degraded" THEN "angry"
                            ELSE "neutral",
         healthMeterBar |-> [width |-> healthScore,
                             backgroundColor |->
                                IF band = "healthy" THEN "success-color"
                                ELSE IF band = "degraded" THEN "error-color"
                                ELSE "warning-color"]]

updateLogHealthFalsy(status, windowData) ==
    LET healthScore  == IF OrZero(windowData.health_score) = 0
                        THEN DefaultScore ELSE windowData.health_score[1]
        healthReason == OrString(windowData.health_reason, "No data available")
        band == IF healthScore >= HealthyScore THEN "healthy"
                ELSE IF healthScore < DegradedScore THEN "degraded"
                ELSE "stable"
    IN  [healthStatus   |-> [textContent |-> OrString(status, "Stable"),
                             title |-> [score |-> healthScore,
                                        reason |-> healthReason]],
         healthEmoji    |-> IF band = "healthy" THEN "smiling"
                            ELSE IF band = "degraded" THEN "angry"
                            ELSE "neutral",
         healthMeterBar |-> [width |-> healthScore,
                             backgroundColor |->
                                IF band = "healthy" THEN "success-color"
                                ELSE IF band = "degraded" THEN "error-color"
                                ELSE "warning-color"]]

\* `windowData` is window.dashboardData, which updateDashboard has just set
updateLogHealth(status, windowData) ==
    LET statusText   == OrString(status, "Stable")
        healthScore  == Coalesce(windowData.health_score, DefaultScore)
        healthReason == Coalesce(windowData.health_reason, "No data available")
        emoji0 == "neutral"
        color0 == "warning-color"
        emoji1 == IF healthScore >= HealthyScore THEN "smiling"
                  ELSE IF healthScore < DegradedScore THEN "angry"
                  ELSE emoji0
        color1 == IF healthScore >= HealthyScore THEN "success-color"
                  ELSE IF healthScore < DegradedScore THEN "error-color"
                  ELSE color0
    IN  [healthStatus   |-> [textContent |-> statusText,
                             title |-> [score |-> healthScore,
                                        reason |-> healthReason]],
         healthEmoji    |-> emoji1,
         healthMeterBar |-> [width |-> healthScore,
                             backgroundColor |-> color1]]

----------------------------------------------------------------------------
(* Recommendations *)

updateRecommendationsZeroBased(newRecommendations) ==
    IF ~Has(newRecommendations) \/ Len(newRecommendations[1]) = 0
    THEN [optimal |-> TRUE, items |-> <<>>]
    ELSE [optimal |-> FALSE,
          items |-> [i \in 1..Len(newRecommendations[1]) |->
                        [number |-> i - 1, text |-> newRecommendations[1][i]]]]

\* `optimal` is the "All systems optimal" paragraph; `items` are the numbered rows
updateRecommendations(newRecommendations) ==
    IF ~Has(newRecommendations) \/ Len(newRecommendations[1]) = 0
    THEN [optimal |-> TRUE, items |-> <<>>]
    ELSE [optimal |-> FALSE,
          items |-> [i \in 1..Len(newRecommendations[1]) |->
                        [number |-> (i - 1) + 1,
                         text |-> newRecommendations[1][i]]]]

----------------------------------------------------------------------------
(* Top errors *)

TopErrorCount == 5

SampleLength == 60

ListLimit == 10

\* names that a lookup on the object literal {} finds on Object.prototype
InheritedKeys == {"constructor"}

\* the number a property name denotes when it is an integer index, else -1
IndexValue(key) ==
    IF key = "404" THEN 404 ELSE IF key = "500" THEN 500 ELSE -1

\* errorDetails.forEach: `groups` are the own properties of errorGroups in
\* creation order.  errorGroups[e.type] of an inherited name is truthy, so no
\* group is created and count++ lands on the inherited object.
\* the property name `obj[type]` uses: an absent type names "undefined"
PropertyKey(type) == IF Has(type) THEN type[1] ELSE "undefined"

RECURSIVE groupErrors(_, _)
groupErrors(details, groups) ==
    IF details = <<>> THEN groups
    ELSE LET e    == Head(details)
             key  == PropertyKey(e.type)
             own  == {i \in 1..Len(groups) : groups[i].type = key}
             next ==
                IF own # {}
                THEN [i \in 1..Len(groups) |->
                        IF i \in own
                        THEN [groups[i] EXCEPT !.count = @ + 1]
                        ELSE groups[i]]
                ELSE IF key \in InheritedKeys
                THEN groups
                ELSE Append(groups, [type |-> key, count |-> 1, first |-> e])
         IN  groupErrors(Tail(details), next)

\* where a group of index key `v` goes among the index keys already placed
RECURSIVE insertIndexKey(_, _)
insertIndexKey(sorted, g) ==
    IF sorted = <<>> THEN <<g>>
    ELSE IF IndexValue(g.type) < IndexValue(Head(sorted).type)
         THEN <<g>> \o sorted
         ELSE <<Head(sorted)>> \o insertIndexKey(Tail(sorted), g)

RECURSIVE indexKeysAscending(_)
indexKeysAscending(groups) ==
    IF groups = <<>> THEN <<>>
    ELSE LET rest == indexKeysAscending(Tail(groups))
         IN  IF IndexValue(Head(groups).type) >= 0
             THEN insertIndexKey(rest, Head(groups))
             ELSE rest

\* Object.entries: integer index keys ascending, then the other keys in
\* creation order
ObjectEntries(groups) ==
    indexKeysAscending(groups)
        \o SelectSeq(groups, LAMBDA g : IndexValue(g.type) < 0)

\* Array.prototype.sort with (a, b) => b.count - a.count: stable, descending
RECURSIVE insertByCount(_, _)
insertByCount(sorted, g) ==
    IF sorted = <<>> THEN <<g>>
    ELSE IF Head(sorted).count < g.count
         THEN <<g>> \o sorted
         ELSE <<Head(sorted)>> \o insertByCount(Tail(sorted), g)

RECURSIVE sortByCount(_, _)
sortByCount(entries, sorted) ==
    IF entries = <<>> THEN sorted
    ELSE sortByCount(Tail(entries), insertByCount(sorted, Head(entries)))

\* the groups that get a row: sorted by count, first TopErrorCount
topGroups(errorDetails) ==
    LET errorGroups == groupErrors(errorDetails, <<>>)
        sorted == sortByCount(ObjectEntries(errorGroups), <<>>)
    IN  SubSeq(sorted, 1, Min(TopErrorCount, Len(sorted)))

\* `${message.substring(0, 60)}...`; a message is modelled by its length
sampleMessage(message) ==
    [shown    |-> Min(message, SampleLength),
     ellipsis |-> TRUE]

\* data.first.message.substring of a row whose first entry has no message
updateTopErrorsRaises(errorDetails) ==
    /\ Has(errorDetails)
    /\ \E i \in 1..Len(topGroups(errorDetails[1])) :
            ~Has(topGroups(errorDetails[1])[i].first.message)

\* `empty` is the "No errors" paragraph; `rows` are the group rows
updateTopErrors(errorDetails) ==
    IF ~Has(errorDetails) \/ Len(errorDetails[1]) = 0
    THEN [empty |-> TRUE, rows |-> <<>>]
    ELSE LET top == topGroups(errorDetails[1])
         IN  [empty |-> FALSE,
              rows  |-> [i \in 1..Len(top) |->
                            [type   |-> top[i].type,
                             count  |-> top[i].count,
                             first  |-> top[i].first,
                             sample |-> sampleMessage(top[i].first.message[1])]]]

----------------------------------------------------------------------------
(* Cost breakdown chart, change list, timestamp line *)

\* costBreakdownChart: an empty or absent breakdown returns before the old
\* chart is destroyed
updateCostBreakdown(chart, costBreakdown) ==
    IF ~Has(costBreakdown) \/ Len(costBreakdown[1]) = 0
    THEN chart
    ELSE Some([labels |-> [i \in 1..Len(costBreakdown[1]) |->
                                costBreakdown[1][i].service],
               data   |-> [i \in 1..Len(costBreakdown[1]) |->
                                costBreakdown[1][i].cost]])

\* insertAdjacentHTML('afterend'): one more block right after the summary;
\* `blocks` are the blocks already there, nearest first
displayChanges(blocks, changes) ==
    IF ~Has(changes) \/ Len(changes[1]) = 0
    THEN blocks
    ELSE <<changes[1]>> \o blocks

\* updateTimestamp sets the text and drops what the line held before
updateTimestamp(timestamp) ==
    [time |-> timestamp, run_mode |-> None]

----------------------------------------------------------------------------
(* Drill-down modals *)

countOnly(title, count) ==
    [title |-> title, detected |-> Some(count), rows |-> None, of |-> None]

ids(details) == [i \in 1..Len(details) |-> details[i].id]

\* e.ai_analysis.related_errors.join of an analysis without related_errors
showErrorDetailsRaises(windowData) ==
    LET details == Field(windowData, "error_details")
    IN  /\ Has(details)
        /\ \E i \in 1..Len(details[1]) :
                /\ Has(details[1][i].ai_analysis)
                /\ ~Has(details[1][i].ai_analysis[1].related_errors)

showErrorDetails(count, windowData) ==
    LET details == Field(windowData, "error_details")
    IN  IF ~Has(details)
        THEN countOnly("Error Details", count)
        ELSE [title |-> "Error Details", detected |-> None,
              rows |-> Some(ids(details[1])), of |-> None]

\* every warning is listed, as showInfoDetails lists every info entry
showWarningDetailsUnsliced(count, windowData) ==
    LET details == Field(windowData, "warning_details")
    IN  IF ~Has(details)
        THEN countOnly("Warning Details", count)
        ELSE [title |-> "Warning Details", detected |-> None,
              rows |-> Some(ids(details[1])), of |-> Some(count)]

showWarningDetails(count, windowData) ==
    LET details == Field(windowData, "warning_details")
    IN  IF ~Has(details)
        THEN countOnly("Warning Details", count)
        ELSE LET warnings == SubSeq(details[1], 1,
                                    Min(ListLimit, Len(details[1])))
             IN  [title |-> "Warning Details", detected |-> None,
                  rows |-> Some(ids(warnings)), of |-> Some(count)]

showInfoDetails(count, windowData) ==
    LET details == Field(windowData, "info_details")
    IN  IF ~Has(details)
        THEN countOnly("Info Logs", count)
        ELSE [title |-> "Info Logs", detected |-> None,
              rows |-> Some(ids(details[1])), of |-> None]

\* what the handler `h` of a count element does when it runs
runHandler(h, windowData) ==
    IF h.handler = "showErrorDetails"
    THEN showErrorDetails(h.count, windowData)
    ELSE IF h.handler = "showWarningDetails"
    THEN showWarningDetails(h.count, windowData)
    ELSE showInfoDetails(h.count, windowData)

handlerRaises(h, windowData) ==
    h.handler = "showErrorDetails" /\ showErrorDetailsRaises(windowData)

----------------------------------------------------------------------------
(* Rendering one snapshot *)

\* the page before the first report is rendered
InitialElements ==
    [statusIndicator  |-> [textContent |-> "Loading", className |-> "loading"],
     statusIndicators |-> [costStatus |-> "loading", logStatus |-> "loading"],
     executiveSummaryMetrics |-> None,
     trendIndicator   |-> "loading",
     logHealth        |-> None,
     recommendationDisplay |-> None,
     topErrorsList    |-> None,
     lastUpdated      |-> [time |-> None, run_mode |-> None],
     logLevels        |->
        [criticalCount |-> [textContent |-> 0, onclick |-> None],
         errorCount    |-> [textContent |-> 0, onclick |-> None],
         warningCount  |-> [textContent |-> 0, onclick |-> None],
         infoCount     |-> [textContent |-> 0, onclick |-> None]],
     costBreakdownChart |-> None,
     changes          |-> <<>>]

\* updateDashboard raises where updateTopErrors does
updateDashboardRaises(data) == updateTopErrorsRaises(data.error_details)

\* the calls of updateDashboard in order; what follows a call that raises
\* (the top errors list, the run mode) is left as it was
updateDashboard(el, data) ==
    LET reached ==
            [el EXCEPT
                !.lastUpdated      = updateTimestamp(data.timestamp),
                !.statusIndicator  = updateStatus(data.sentiment,
                                                  data.error_count),
                !.statusIndicators = updateStatusIndicators(data.cost_health,
                                                            data.log_levels),
                !.executiveSummaryMetrics = Some(updateExecutiveSummary(data)),
                !.trendIndicator   = updateTrend(data.trend),
                !.logHealth        = Some(updateLogHealth(data.log_health_status,
                                                          data)),
                !.logLevels        = updateLogLevels(el.logLevels,
                                                     data.log_levels),
                !.recommendationDisplay =
                                Some(updateRecommendations(data.recommendations)),
                !.costBreakdownChart =
                                updateCostBreakdown(el.costBreakdownChart,
                                                    data.cost_breakdown),
                !.changes          = displayChanges(el.changes,
                                                    data.changes_since_last)]
    IN  IF updateDashboardRaises(data)
        THEN reached
        ELSE [reached EXCEPT
                !.topErrorsList = Some(updateTopErrors(data.error_details)),
                !.lastUpdated.run_mode = data.run_mode]

NoHistory == [rendered |-> FALSE, statusText |-> "Loading", criticalGrew |-> FALSE]

\* the second snapshot is the first one with a larger critical count
OnlyCriticalGrew(old, new) ==
    /\ Has(old)
    /\ Has(old[1].error_count)
    /\ Has(new.error_count)
    /\ new.error_count[1] > old[1].error_count[1]
    /\ new = [old[1] EXCEPT !.error_count = new.error_count]

\* the banner is shown with the message
showError(banner, message) == Some(message)

\* no hideError: the banner stays as it is
hideErrorKept(banner) == banner

hideError(banner) == None

\* fetchDashboardData once the body is parsed: updateDashboard(data), then
\* hideError, or showError when updateDashboard raised
Render(data) ==
    /\ Len(displayChanges(elements.changes, data.changes_since_last))
            <= MaxBlocks
    /\ dashboardData' = Some(data)
    /\ elements' = updateDashboard(elements, data)
    /\ history' = [rendered     |-> Has(dashboardData),
                   statusText   |-> elements.statusIndicator.textContent,
                   criticalGrew |-> OnlyCriticalGrew(dashboardData, data)]
    /\ errorMessage' = IF updateDashboardRaises(data)
                       THEN showError(errorMessage, "TypeError")
                       ELSE hideError(errorMessage)
    /\ outcome' = [op |-> "refresh", key |-> "",
                   raised |-> updateDashboardRaises(data)]
    /\ UNCHANGED modal

----------------------------------------------------------------------------
(* Status derivation on one fetched snapshot *)

CostHealths == Opt({"ok", "warning", "critical", "unknown"})

Sentiments == Opt({"Negative", "Positive"})

ConfigChoices == {None, Some(SampleThreshold)}

StatusSnapshots ==
    { [Absent EXCEPT !.sentiment = s, !.error_count = c, !.cost_health = h,
                     !.log_levels = l] :
        s \in Sentiments, c \in Opt(0..MaxCount), h \in CostHealths,
        l \in Opt(LogLevels(0..MaxLevel, 0..1, 0..MaxLevel, 0..1)) }

NothingObserved ==
    [held |-> 0, returned |-> {}, settled |-> 0, failed |-> FALSE,
     everFailed |-> FALSE, message |-> "", toggled |-> FALSE]

InitPage ==
    /\ dashboardData = None
    /\ elements = InitialElements
    /\ history = NoHistory
    /\ modal = None
    /\ errorMessage = None
    /\ outcome = [op |-> "load", key |-> "", raised |-> FALSE]
    /\ pending = {}
    /\ started = 0
    /\ loadingOverlay = "none"
    /\ autoRefreshInterval = None
    /\ timers = {}
    /\ observed = NothingObserved

\* a whole fetchDashboardData call taken in one step: the overlay is shown
\* and hidden again within it
fetchDashboardData ==
    /\ Has(response)
    /\ Render(response[1])
    /\ response' = None
    /\ UNCHANGED <<config, timing>>

InitStatus ==
    /\ InitPage
    /\ autoRefreshToggle = TRUE
    /\ response \in {Some(d) : d \in StatusSnapshots}
    /\ config \in ConfigChoices

SpecStatus == InitStatus /\ [][fetchDashboardData]_vars

----------------------------------------------------------------------------
(* Log health derivation on one fetched snapshot *)

HealthSnapshots ==
    { [Absent EXCEPT !.log_health_status = st, !.health_score = sc,
                     !.health_reason = r] :
        st \in Opt({"", "Healthy", "Stable", "Degraded"}),
        sc \in Opt((0 - ScoreMargin)..(MaxScore + ScoreMargin)),
        r \in Opt({"", "Error rate above baseline"}) }

InitHealth ==
    /\ InitPage
    /\ autoRefreshToggle = TRUE
    /\ response \in {Some(d) : d \in HealthSnapshots}
    /\ config = None

SpecHealth == InitHealth /\ [][fetchDashboardData]_vars

----------------------------------------------------------------------------
(* Trend and recommendations on one fetched snapshot *)

SummarySnapshots ==
    { [Absent EXCEPT !.cost_trend = ct, !.trend = t, !.recommendations = r] :
        ct \in Opt(CostTrends({0, 12}, (0 - MaxChange)..MaxChange)),
        t \in Opt({"up", "down", "flat"}),
        r \in Opt(SeqsUpTo({"x", "y"}, MaxRecs)) }

InitSummary ==
    /\ InitPage
    /\ autoRefreshToggle = TRUE
    /\ response \in {Some(d) : d \in SummarySnapshots}
    /\ config = None

SpecSummary == InitSummary /\ [][fetchDashboardData]_vars

----------------------------------------------------------------------------
(* Top errors on one fetched snapshot *)

ErrorTypes == {"A", "B", "C", "D", "404", "500", "constructor"}

\* the entries of a snapshot carry their position as id; entry i has a
\* message of `base + i - 1` characters, entry `missing` has none
ErrorDetails(types, base, missing) ==
    [i \in 1..Len(types) |->
        [id |-> i, type |-> types[i],
         message |-> IF i = missing THEN None ELSE Some(base + i - 1),
         severity |-> None, ai_analysis |-> None]]

Typed(names) == [i \in 1..Len(names) |-> Some(names[i])]

\* every sequence of at most MaxTail types (or entries without a type), alone
\* and after a seed sequence that already holds four groups
TypeSequences ==
    { seed \o tail :
        seed \in {<<>>, Typed(<<"B", "500", "A", "404", "B">>)},
        tail \in SeqsUpTo(Opt(ErrorTypes), MaxTail) }

\* message lengths start well below the sample length or just under it
MessageBases == {0, SampleLength - 2}

TopErrorSnapshots ==
    {Absent} \cup
    { [Absent EXCEPT !.error_details = Some(ErrorDetails(types, base, missing))] :
        types \in TypeSequences, base \in MessageBases, missing \in 0..2 }

InitTopErrors ==
    /\ InitPage
    /\ autoRefreshToggle = TRUE
    /\ response \in {Some(d) : d \in TopErrorSnapshots}
    /\ config = None

SpecTopErrors == InitTopErrors /\ [][fetchDashboardData]_vars

----------------------------------------------------------------------------
(* Successive refreshes *)

RefreshSnapshots ==
    { [Absent EXCEPT !.sentiment = s, !.error_count = c, !.cost_health = h] :
        s \in Sentiments, c \in Opt(0..MaxCount),
        h \in Opt({"ok", "warning", "critical"}) }

Refresh(data) ==
    /\ response = None
    /\ Render(data)
    /\ UNCHANGED <<response, config, timing>>

Init ==
    /\ InitPage
    /\ autoRefreshToggle = TRUE
    /\ response = None
    /\ config \in ConfigChoices

Next == \E data \in RefreshSnapshots : Refresh(data)

Spec == Init /\ [][Next]_vars

----------------------------------------------------------------------------
(* A session: refreshes that succeed or fail, clicks on the severity counts *)

\* one key positive, all four positive, or none
SessionLevels ==
    LET level(c, e, w, i) ==
            Some([critical |-> Some(c), error |-> Some(e),
                  warning |-> Some(w), info |-> Some(i)])
    IN  {None, level(0, 0, 0, 0), level(DrillCount, 0, 0, 0),
         level(0, DrillCount, 0, 0), level(0, 0, DrillCount, 0),
         level(0, 0, 0, DrillCount),
         level(DrillCount, DrillCount, DrillCount, DrillCount)}

Analysed(entry, related) ==
    [entry EXCEPT !.ai_analysis = Some([related_errors |-> related])]

\* error_details of a critical entry, an entry without severity that carries
\* a root-cause analysis, and an entry of severity error
AnalysedDetails(related) ==
    LET details == ErrorDetails(Typed(<<"A", "B", "C">>), 1, 0)
    IN  [details EXCEPT ![1].severity = Some("critical"),
                        ![2] = Analysed(details[2], related),
                        ![3].severity = Some("error")]

Listed(n) == [i \in 1..n |-> [id |-> i]]

\* a detail sequence longer than the drill-down's slice
LongList == ListLimit + 2

\* which detail sequences a snapshot carries
SessionDetails ==
    LET detail(e, w, i) ==
            [error_details |-> e, warning_details |-> w, info_details |-> i]
    IN  {detail(None, None, None),
         detail(Some(AnalysedDetails(Some(<<1>>))), None, None),
         detail(None, Some(Listed(2)), Some(Listed(2))),
         detail(None, Some(Listed(LongList)), Some(Listed(LongList))),
         detail(Some(AnalysedDetails(None)), None, None),
         detail(Some(ErrorDetails(Typed(<<"A", "B">>), 1, 2)), None, None)}

SessionSnapshots ==
    { [Absent EXCEPT !.log_levels = l,
                     !.error_details = d.error_details,
                     !.warning_details = d.warning_details,
                     !.info_details = d.info_details] :
        l \in SessionLevels, d \in SessionDetails }

\* fetchDashboardData when the request fails, the status is not ok or the
\* body does not parse: showError, updateDashboard is not reached
fetchFails ==
    /\ response = None
    /\ errorMessage' = showError(errorMessage, "HTTP error")
    /\ outcome' = [op |-> "failed", key |-> "", raised |-> FALSE]
    /\ UNCHANGED <<response, config, dashboardData, elements, history, modal,
                   timing>>

\* a click on a count element runs the handler it holds, if any; a handler
\* that raises shows no modal
click(key) ==
    /\ Has(elements.logLevels[key].onclick)
    /\ LET h == elements.logLevels[key].onclick[1]
       IN  /\ modal' = IF handlerRaises(h, dashboardData)
                       THEN modal
                       ELSE Some(runHandler(h, dashboardData))
           /\ outcome' = [op |-> "click", key |-> key,
                          raised |-> handlerRaises(h, dashboardData)]
    /\ UNCHANGED <<response, config, dashboardData, elements, history,
                   errorMessage, timing>>

closeModal ==
    /\ Has(modal)
    /\ modal' = None
    /\ outcome' = [op |-> "close", key |-> "", raised |-> FALSE]
    /\ UNCHANGED <<response, config, dashboardData, elements, history,
                   errorMessage, timing>>

InitSession ==
    /\ InitPage
    /\ autoRefreshToggle = TRUE
    /\ response = None
    /\ config = None

NextSession ==
    \/ \E data \in SessionSnapshots : Refresh(data)
    \/ fetchFails
    \/ \E key \in {"criticalCount", "errorCount", "warningCount",
                    "infoCount"} : click(key)
    \/ closeModal

SpecSession == InitSession /\ [][NextSession]_vars

----------------------------------------------------------------------------
(* Successive refreshes that all succeed *)

Services(names) == [i \in 1..Len(names) |-> [service |-> names[i], cost |-> i]]

CostBreakdowns ==
    {None, Some(<<>>), Some(Services(<<"EC2">>)), Some(Services(<<"S3", "EC2">>))}

\* the session's snapshots that updateDashboard renders without raising, and
\* snapshots with a cost breakdown
RenderedSnapshots ==
    {d \in SessionSnapshots : ~updateDashboardRaises(d)}
        \cup {[Absent EXCEPT !.cost_breakdown = b] : b \in CostBreakdowns}

NextRefreshes == \E data \in RenderedSnapshots : Refresh(data)

SpecRefreshes == InitSession /\ [][NextRefreshes]_vars

----------------------------------------------------------------------------
(* Successive refreshes of snapshots with a change list *)

ChangeSnapshots ==
    { [Absent EXCEPT !.changes_since_last = c, !.timestamp = t,
                     !.run_mode = m] :
        c \in {None, Some(<<>>), Some(<<"c1">>), Some(<<"c1", "c2">>)},
        t \in Opt({"t1"}), m \in Opt({"demo"}) }

NextChanges == \E data \in ChangeSnapshots : Refresh(data)

SpecChanges == InitSession /\ [][NextChanges]_vars

----------------------------------------------------------------------------
(* The refresh cycle: fetches in flight, the interval timer, the overlay *)

\* setInterval without clearing the timer that is running
startAutoRefreshKeeping(interval, active) ==
    LET id == IF Has(interval) THEN interval[1] + 1 ELSE 1
    IN  [interval |-> Some(id), active |-> active \cup {id}]

\* clearInterval of the timer the variable names, if any, then setInterval;
\* timer ids are handed out in increasing order
startAutoRefresh(interval, active) ==
    LET id      == IF Has(interval) THEN interval[1] + 1 ELSE 1
        cleared == IF Has(interval) THEN active \ {interval[1]} ELSE active
    IN  [interval |-> Some(id), active |-> cleared \cup {id}]

\* clearInterval(autoRefreshInterval); the variable keeps the id
stopAutoRefresh(interval, active) ==
    [interval |-> interval,
     active   |-> IF Has(interval) THEN active \ {interval[1]} ELSE active]

\* fetchDashboardData up to its first await: the overlay is shown and the
\* request is on its way
callFetch ==
    /\ started < MaxFetches
    /\ started' = started + 1
    /\ pending' = pending \cup {started + 1}
    /\ loadingOverlay' = "flex"

\* DOMContentLoaded: the listeners are registered, the first fetch is made
\* and the timer is started
initialize ==
    /\ ~Has(autoRefreshInterval)
    /\ callFetch
    /\ LET timer == startAutoRefresh(autoRefreshInterval, timers)
       IN  /\ autoRefreshInterval' = timer.interval
           /\ timers' = timer.active
    /\ outcome' = [op |-> "initialize", key |-> "", raised |-> FALSE]
    /\ UNCHANGED <<response, config, dashboardData, elements, history, modal,
                   errorMessage, autoRefreshToggle, observed>>

\* the interval timer `t` calls fetchDashboardData
intervalFires(t) ==
    /\ t \in timers
    /\ callFetch
    /\ outcome' = [op |-> "interval", key |-> "", raised |-> FALSE]
    /\ UNCHANGED <<response, config, dashboardData, elements, history, modal,
                   errorMessage, autoRefreshInterval, timers,
                   autoRefreshToggle, observed>>

\* a click on the refresh button calls fetchDashboardData
refreshBtnClick ==
    /\ Has(autoRefreshInterval)
    /\ callFetch
    /\ outcome' = [op |-> "button", key |-> "", raised |-> FALSE]
    /\ UNCHANGED <<response, config, dashboardData, elements, history, modal,
                   errorMessage, autoRefreshInterval, timers,
                   autoRefreshToggle, observed>>

\* the change event of the checkbox: startAutoRefresh when it is now checked,
\* stopAutoRefresh when it is not
toggleAutoRefresh ==
    /\ Has(autoRefreshInterval)
    /\ autoRefreshToggle' = ~autoRefreshToggle
    /\ LET timer == IF autoRefreshToggle'
                    THEN startAutoRefresh(autoRefreshInterval, timers)
                    ELSE stopAutoRefresh(autoRefreshInterval, timers)
       IN  /\ timer.interval[1] <= MaxTimers
           /\ autoRefreshInterval' = timer.interval
           /\ timers' = timer.active
    /\ observed' = [observed EXCEPT !.toggled = TRUE]
    /\ outcome' = [op |-> "toggle", key |-> "", raised |-> FALSE]
    /\ UNCHANGED <<response, config, dashboardData, elements, history, modal,
                   errorMessage, pending, started, loadingOverlay>>

\* the call `id` gets its response and parses it: updateDashboard, hideError
\* (showError when updateDashboard raised), and the overlay is hidden
fetchSettles(id, data) ==
    /\ id \in pending
    /\ Render(data)
    /\ pending' = pending \ {id}
    /\ loadingOverlay' = "none"
    /\ observed' = [observed EXCEPT
                        !.held = id,
                        !.returned = @ \cup {id},
                        !.settled = id,
                        !.failed = updateDashboardRaises(data),
                        !.everFailed = @ \/ updateDashboardRaises(data),
                        !.message = IF updateDashboardRaises(data)
                                    THEN "TypeError" ELSE ""]
    /\ UNCHANGED <<response, config, started, autoRefreshInterval, timers,
                   autoRefreshToggle>>

\* what error.message says when the request, the status or the parse fails
FetchErrors == {"HTTP error", "SyntaxError"}

\* the call `id` fails before updateDashboard: showError, and the overlay is
\* hidden
fetchRejects(id, message) ==
    /\ id \in pending
    /\ errorMessage' = showError(errorMessage, message)
    /\ pending' = pending \ {id}
    /\ loadingOverlay' = "none"
    /\ observed' = [observed EXCEPT !.settled = id, !.failed = TRUE,
                                    !.everFailed = TRUE,
                                    !.message = message]
    /\ outcome' = [op |-> "failed", key |-> "", raised |-> FALSE]
    /\ UNCHANGED <<response, config, dashboardData, elements, history, modal,
                   started, autoRefreshInterval, timers, autoRefreshToggle>>

\* two reports that differ in their timestamp, and one with an error entry
\* that has no message
CycleSnapshots ==
    {[Absent EXCEPT !.timestamp = Some("t1")],
     [Absent EXCEPT !.timestamp = Some("t2")],
     [Absent EXCEPT !.error_details = Some(ErrorDetails(Typed(<<"A">>), 1, 1))]}

InitCycle ==
    /\ InitPage
    /\ response = None
    /\ config = None
    /\ autoRefreshToggle \in BOOLEAN

NextCycle ==
    \/ initialize
    \/ \E t \in 1..MaxTimers : intervalFires(t)
    \/ refreshBtnClick
    \/ toggleAutoRefresh
    \/ \E id \in 1..MaxFetches, data \in CycleSnapshots : fetchSettles(id, data)
    \/ \E id \in 1..MaxFetches, message \in FetchErrors :
            fetchRejects(id, message)

SpecCycle == InitCycle /\ [][NextCycle]_vars

----------------------------------------------------------------------------
(* Claims about the status signals *)

Rendered == Has(dashboardData)

Data == dashboardData[1]

StatusText == elements.statusIndicator.textContent

CostDot == elements.statusIndicators.costStatus

LogDot == elements.statusIndicators.logStatus

\* the critical-count threshold of the configuration, 5 when none is configured
ConfiguredThreshold == IF Has(config) THEN config[1] ELSE 5

C2_LogDot ==
    Rendered =>
        LET critical == OrZero(Field(Data.log_levels, "critical"))
            warning  == OrZero(Field(Data.log_levels, "warning"))
        IN  LogDot = IF critical > 0 THEN "red"
                     ELSE IF warning > 0 THEN "yellow" ELSE "green"

C2_Witness ==
    /\ Rendered
    /\ Has(Data.log_levels)
    /\ Data.log_levels[1].error = Some(1)
    /\ Data.log_levels[1].info = Some(1)
    /\ Data.log_levels[1].critical = Some(0)
    /\ Data.log_levels[1].warning = None
    /\ Data.cost_health = Some("critical")
    /\ LogDot = "green"

\* C3: the cost status dot is green for 'ok', yellow for 'warning', red for
\* 'critical' and green for every other or absent costHealth, whatever
\* logLevels is.
C3_CostDot ==
    Rendered =>
        CostDot = IF Data.cost_health = Some("ok") THEN "green"
                  ELSE IF Data.cost_health = Some("warning") THEN "yellow"
                  ELSE IF Data.cost_health = Some("critical") THEN "red"
                  ELSE "green"

C3_Witness ==
    /\ Rendered
    /\ Data.cost_health = Some("unknown")
    /\ Greater(Field(Data.log_levels, "critical"), 0)
    /\ CostDot = "green"
    /\ LogDot = "red"

Rank(label) ==
    IF label = "Healthy" THEN 0 ELSE IF label = "Degraded" THEN 1 ELSE 2

\* C4: when a refresh differs from the snapshot before it only by a larger
\* critical count, the overall status is at least as severe as before, and a
\* Critical or Degraded status does not return to Healthy.
C4_Monotonic ==
    history.criticalGrew =>
        /\ Rank(history.statusText) <= Rank(StatusText)
        /\ (history.statusText \in {"Critical", "Degraded"}
                => StatusText # "Healthy")

C4_Witness ==
    /\ history.criticalGrew
    /\ history.statusText = "Degraded"
    /\ StatusText = "Critical"

\* a snapshot with warnings, no criticals and costHealth 'ok'
WarningsOnly ==
    /\ Rendered
    /\ Greater(Field(Data.log_levels, "warning"), 0)
    /\ OrZero(Field(Data.log_levels, "critical")) = 0
    /\ OrZero(Data.error_count) = 0
    /\ Data.cost_health = Some("ok")

----------------------------------------------------------------------------
(* Claims about top errors, trend, log health and recommendations *)

TopRows == elements.topErrorsList[1].rows

\* how many entries of the snapshot's error_details have type t
Occurrences(t) ==
    Cardinality({i \in 1..Len(Data.error_details[1]) :
                    PropertyKey(Data.error_details[1][i].type) = t})

\* C6: updateTopErrors yields at most 5 groups, each type at most once,
\* ordered by count descending, no omitted group has a larger count than a
\* listed one, and [A, B, A] yields [A:2, B:1].
C6_AsStated ==
    (Rendered /\ Has(Data.error_details) /\ ~outcome.raised) =>
        LET details == Data.error_details[1]
            listed  == {TopRows[i].type : i \in 1..Len(TopRows)}
        IN  /\ Len(TopRows) <= 5
            /\ \A i, j \in 1..Len(TopRows) :
                    i < j => /\ TopRows[i].type # TopRows[j].type
                             /\ TopRows[i].count >= TopRows[j].count
            /\ \A k \in 1..Len(details) :
                    PropertyKey(details[k].type) \notin listed =>
                        \A i \in 1..Len(TopRows) :
                            Occurrences(PropertyKey(details[k].type))
                                <= TopRows[i].count
            /\ ([k \in 1..Len(details) |-> details[k].type]
                    = Typed(<<"A", "B", "A">>) =>
                    /\ Len(TopRows) = 2
                    /\ TopRows[1].type = "A" /\ TopRows[1].count = 2
                    /\ TopRows[2].type = "B" /\ TopRows[2].count = 1)

Summary == elements.executiveSummaryMetrics[1]

\* C7: the trend direction derived from changePercentage is 'up' for every
\* value > 0, 'down' for every value < 0 and 'flat' for exactly 0 or an absent
\* value.
C7_AsStated ==
    Rendered =>
        LET change == OrZero(Field(Data.cost_trend, "change_percentage"))
        IN  Summary.trendClass = IF change > 0 THEN "up"
                                 ELSE IF change < 0 THEN "down" ELSE "flat"

Health == elements.logHealth[1]

Band(score) ==
    IF score >= 80 THEN "Healthy" ELSE IF score < 50 THEN "Degraded" ELSE "Stable"

EmojiBand ==
    IF Health.healthEmoji = "smiling" THEN "Healthy"
    ELSE IF Health.healthEmoji = "angry" THEN "Degraded" ELSE "Stable"

ColorBand ==
    IF Health.healthMeterBar.backgroundColor = "success-color" THEN "Healthy"
    ELSE IF Health.healthMeterBar.backgroundColor = "error-color" THEN "Degraded"
    ELSE "Stable"

HealthDefaults ==
    /\ (~Has(Data.health_score) => Health.healthStatus.title.score = 50)
    /\ (~Has(Data.health_score) => Health.healthMeterBar.width = 50)
    /\ (~Has(Data.health_reason)
            => Health.healthStatus.title.reason = "No data available")
    /\ (Has(Data.health_score)
            => /\ Health.healthStatus.title.score = Data.health_score[1]
               /\ Health.healthMeterBar.width = Data.health_score[1])
    /\ (Has(Data.health_reason)
            => Health.healthStatus.title.reason = Data.health_reason[1])

\* C9 as stated: with healthScore absent the score used is 50, the label is
\* Stable and the reason 'No data available'; a present score of 0 stays 0 and
\* a present reason is shown verbatim.
C9_AsStated ==
    Rendered =>
        /\ HealthDefaults
        /\ (~Has(Data.health_score)
                => Health.healthStatus.textContent = "Stable")

\* C9 amended: with healthScore absent the score used is 50 and the emoji and
\* the meter colour are those of the Stable band; the label is Stable when
\* log_health_status is absent or empty too, and log_health_status otherwise;
\* an absent reason is 'No data available'; a present score of 0 stays 0 and a
\* present reason is shown verbatim.
C9_HealthDefaults ==
    Rendered =>
        /\ HealthDefaults
        /\ (~Has(Data.health_score)
                => /\ EmojiBand = "Stable"
                   /\ ColorBand = "Stable"
                   /\ Health.healthStatus.textContent =
                         IF Data.log_health_status \in {None, Some("")}
                         THEN "Stable" ELSE Data.log_health_status[1])

C9_Witness ==
    /\ Rendered
    /\ Data.health_score = Some(0)
    /\ Data.health_reason = Some("")
    /\ Health.healthStatus.title.score = 0
    /\ Health.healthStatus.title.reason = ""
    /\ EmojiBand = "Degraded"

Recommendations == elements.recommendationDisplay[1]

\* C10: updateRecommendations yields the 'all systems optimal' marker exactly
\* when the recommendations sequence is empty or absent; otherwise it yields
\* one item per input string, in input order, numbered 1..n.
C10_Recommendations ==
    Rendered =>
        LET recs == Coalesce(Data.recommendations, <<>>)
        IN  /\ Recommendations.optimal <=> (recs = <<>>)
            /\ Len(Recommendations.items) = Len(recs)
            /\ \A i \in 1..Len(recs) :
                    /\ Recommendations.items[i].number = i
                    /\ Recommendations.items[i].text = recs[i]

C10_Witness ==
    /\ Rendered
    /\ Data.recommendations = Some(<<"y", "x", "y">>)
    /\ ~Recommendations.optimal
    /\ Len(Recommendations.items) = 3
    /\ Recommendations.items[3] = [number |-> 3, text |-> "y"]

----------------------------------------------------------------------------
(* Claims about the severity counts and the drill-downs *)

Counts == elements.logLevels

\* the value the mapping holds for a severity, 0 for an absent key or mapping
LevelOrZero(key) ==
    IF Has(Data.log_levels) /\ Has(Data.log_levels[1][key])
    THEN Data.log_levels[1][key][1]
    ELSE 0

\* C11: each of the four displayed severity counts equals the mapping's value
\* for that severity, or 0 when the key or the mapping is absent, and the
\* displayed total log count is the sum of the four displayed counts.
C11_LogCounts ==
    Rendered =>
        /\ Counts.criticalCount.textContent = LevelOrZero("critical")
        /\ Counts.errorCount.textContent = LevelOrZero("error")
        /\ Counts.warningCount.textContent = LevelOrZero("warning")
        /\ Counts.infoCount.textContent = LevelOrZero("info")
        /\ Summary.totalLogs = Counts.criticalCount.textContent
                                + Counts.errorCount.textContent
                                + Counts.warningCount.textContent
                                + Counts.infoCount.textContent

\* a mapping without the error key, the other three counts positive
C11_Witness ==
    /\ Rendered
    /\ Has(Data.log_levels)
    /\ ~Has(Data.log_levels[1].error)
    /\ Counts.criticalCount.textContent = MaxLevel
    /\ Counts.errorCount.textContent = 0
    /\ Counts.warningCount.textContent = 1
    /\ Counts.infoCount.textContent = 1
    /\ Summary.totalLogs = MaxLevel + 2

\* the severity a count element shows
SeverityOf(key) ==
    IF key = "criticalCount" THEN "critical"
    ELSE IF key = "errorCount" THEN "error"
    ELSE IF key = "warningCount" THEN "warning"
    ELSE "info"

\* the detail sequence the drill-down of a count element lists
DetailsOf(key) ==
    IF key \in {"criticalCount", "errorCount"} THEN Data.error_details
    ELSE IF key = "warningCount" THEN Data.warning_details
    ELSE Data.info_details

Clicked == outcome.op = "click" /\ ~outcome.raised

\* C12: a drill-down opened from a severity count reports the count only
\* when the count is positive and the current snapshot has no detail sequence
\* for the severity, lists rows when it has one, and is never opened for a
\* severity whose count in the current snapshot is 0.
C12_AsStated ==
    Clicked =>
        LET count   == LevelOrZero(SeverityOf(outcome.key))
            details == DetailsOf(outcome.key)
        IN  /\ count > 0
            /\ ~Has(details) => /\ Has(modal[1].detected)
                                /\ ~Has(modal[1].rows)
            /\ Has(details) => /\ ~Has(modal[1].detected)
                               /\ Has(modal[1].rows)

----------------------------------------------------------------------------
(* Claims about the top errors list *)

TopErrors == elements.topErrorsList[1]

EmptyDetails == ~Has(Data.error_details) \/ Len(Data.error_details[1]) = 0

\* C13: updateTopErrors shows the 'No errors' marker and no rows exactly when
\* errorDetails is absent or empty; every non-empty errorDetails yields at
\* least one group row and no marker.
C13_AsStated ==
    (Rendered /\ ~outcome.raised) =>
        /\ EmptyDetails => (TopErrors.empty /\ Len(TopErrors.rows) = 0)
        /\ ~EmptyDetails => (~TopErrors.empty /\ Len(TopErrors.rows) >= 1)

----------------------------------------------------------------------------
(* Claims about refreshes *)

\* C14: neither updateDashboard nor a drill-down raises, whatever fields the
\* snapshot lacks, entries of error_details without message or type and a
\* root-cause analysis without related_errors included.
C14_AsStated ==
    outcome.op \in {"refresh", "click"} => ~outcome.raised

\* C15: after any sequence of successful refreshes everything displayed and
\* every click handler is what rendering the most recent snapshot alone on a
\* fresh page gives.
C15_AsStated ==
    Rendered => elements = updateDashboard(InitialElements, Data)

\* the step is a refresh that failed: the fetch or the parse failed, or
\* updateDashboard raised
RefreshFailed ==
    \/ outcome'.op = "failed"
    \/ outcome'.op = "refresh" /\ outcome'.raised

\* C16: a refresh that fails leaves window.dashboardData and every displayed
\* signal exactly as they were before it.
C16_AsStated ==
    [][RefreshFailed => (dashboardData' = dashboardData /\ elements' = elements)]_vars

\* the step renders the snapshot that is already rendered
RenderedAgain ==
    /\ Rendered
    /\ outcome'.op = "refresh"
    /\ ~outcome'.raised
    /\ dashboardData' = dashboardData

\* C17: rendering is idempotent: rendering the same snapshot a second time
\* leaves every displayed signal as the first rendering left it.
C17_AsStated ==
    [][RenderedAgain => elements' = elements]_vars

Details == Data.error_details[1]

ListedTypes == {TopRows[i].type : i \in 1..Len(TopRows)}

\* C18: rows with equal counts appear in the order in which their types first
\* occur in errorDetails, and a group left out by the cut to five rows first
\* occurs after every listed group of the same count; for every type string,
\* '404' and '500' included.
C18_AsStated ==
    (Rendered /\ ~outcome.raised /\ ~EmptyDetails) =>
        /\ \A i, j \in 1..Len(TopRows) :
                (i < j /\ TopRows[i].count = TopRows[j].count)
                    => TopRows[i].first.id < TopRows[j].first.id
        /\ \A k \in 1..Len(Details), i \in 1..Len(TopRows) :
                (/\ PropertyKey(Details[k].type) \notin ListedTypes
                 /\ Occurrences(PropertyKey(Details[k].type)) = TopRows[i].count)
                    => TopRows[i].first.id < k

\* the first entry of errorDetails whose type is t
FirstOf(t) ==
    Details[CHOOSE k \in 1..Len(Details) :
                /\ PropertyKey(Details[k].type) = t
                /\ \A m \in 1..(k - 1) : PropertyKey(Details[m].type) # t]

RECURSIVE TotalCount(_)
TotalCount(groups) ==
    IF groups = <<>> THEN 0
    ELSE Head(groups).count + TotalCount(Tail(groups))

\* C19: each listed group's count is the number of entries of its type and
\* its representative is the first entry of that type; the counts of all
\* groups, before the cut to five, sum to the length of errorDetails.
C19_AsStated ==
    (Rendered /\ ~outcome.raised /\ ~EmptyDetails) =>
        /\ \A i \in 1..Len(TopRows) :
                /\ TopRows[i].count = Occurrences(TopRows[i].type)
                /\ TopRows[i].first = FirstOf(TopRows[i].type)
        /\ TotalCount(groupErrors(Details, <<>>)) = Len(Details)

\* C20: the sample of a group shows the first 60 characters of the
\* representative's message, followed by an ellipsis exactly when the message
\* is longer than 60 characters.
C20_AsStated ==
    (Rendered /\ ~outcome.raised /\ ~EmptyDetails) =>
        \A i \in 1..Len(TopRows) :
            LET message == TopRows[i].first.message[1]
            IN  /\ TopRows[i].sample.shown = Min(message, 60)
                /\ TopRows[i].sample.ellipsis <=> (message > 60)

----------------------------------------------------------------------------
(* Claims about the health meter *)

Clamped(score) == IF score < 0 THEN 0 ELSE IF score > 100 THEN 100 ELSE score

\* C21: the width given to the health meter is the score clamped to 0..100,
\* for every integer health_score, values below 0 and above 100 included.
C21_AsStated ==
    (Rendered /\ Has(Data.health_score)) =>
        /\ Health.healthMeterBar.width = Clamped(Data.health_score[1])
        /\ Health.healthMeterBar.width \in 0..100

----------------------------------------------------------------------------
(* Claims about what the drill-downs list *)

Rows == modal[1].rows[1]

\* the ids of the entries of errorDetails whose severity is in S
WithSeverity(S) ==
    ids(SelectSeq(Data.error_details[1], LAMBDA e : e.severity \in S))

\* C22: the drill-down of the critical count lists only the entries of
\* severity critical; the drill-down of the error count lists the entries
\* whose severity is absent or error, with or without the critical ones.
C22_AsStated ==
    (Clicked /\ Has(Data.error_details)) =>
        /\ outcome.key = "criticalCount"
                => Rows = WithSeverity({Some("critical")})
        /\ outcome.key = "errorCount"
                => \/ Rows = WithSeverity({None, Some("error")})
                   \/ Rows = WithSeverity({None, Some("error"),
                                           Some("critical")})

----------------------------------------------------------------------------
(* Claims about the refresh cycle *)

\* C24: at most one fetchDashboardData call is in flight at any time.
C24_AsStated == Cardinality(pending) <= 1

\* C25: the snapshot held is the one returned to the most recently started
\* of the calls that returned one: a response to an earlier call never
\* replaces the snapshot of a later call.
C25_AsStated ==
    \A id \in observed.returned : id <= observed.held

\* the checkbox was never toggled, or the last toggle checked it
SwitchedOn == observed.toggled => autoRefreshToggle

\* C26: after initialize and any toggle events at most one interval timer is
\* active; one is active exactly when the most recent toggle switched
\* auto-refresh on or no toggle happened yet; and no refresh is started by a
\* timer while auto-refresh is switched off.
C26_AutoRefresh ==
    /\ Cardinality(timers) <= 1
    /\ Has(autoRefreshInterval) => (timers # {} <=> SwitchedOn)
    /\ outcome.op = "interval" => SwitchedOn

\* auto-refresh switched off and on again: the timer running is a later one
\* than the one initialize started
C26_Witness ==
    /\ observed.toggled
    /\ autoRefreshToggle
    /\ autoRefreshInterval = Some(MaxTimers)
    /\ timers = {MaxTimers}

\* C27: the loading overlay is visible exactly while at least one fetch is in
\* flight: it is never hidden while a refresh is pending, and it is hidden
\* once none is pending.
C27_AsStated == loadingOverlay = "flex" <=> pending # {}

\* C28: once a refresh has completed, the error banner is visible if and only
\* if the most recently completed refresh failed, and it then shows the
\* message of that failure: a success hides a banner that was showing.
C28_ErrorBanner ==
    observed.settled # 0 =>
        /\ Has(errorMessage) <=> observed.failed
        /\ observed.failed => errorMessage = Some(observed.message)

\* a refresh completed successfully after an earlier one had failed, and the
\* banner is hidden
C28_Witness ==
    /\ observed.everFailed
    /\ ~observed.failed
    /\ outcome.op = "refresh"
    /\ errorMessage = None
    /\ dashboardData # None

\* a click on the warning count has just opened the drill-down, which lists
\* entries under a title 'Warning Details (X of Y)'
WarningListed ==
    /\ Clicked
    /\ outcome.key = "warningCount"
    /\ Has(modal)
    /\ modal[1].title = "Warning Details"
    /\ Has(modal[1].rows)
    /\ Has(modal[1].of)

\* C29: in the title 'Warning Details (X of Y)' X is the number of rows
\* listed, and X is at most 10, at most the number of warning entries of the
\* snapshot held at the click, and at most Y.
C29_AsStated ==
    WarningListed =>
        /\ Len(Rows) <= ListLimit
        /\ Len(Rows) <= Len(Data.warning_details[1])
        /\ Len(Rows) <= modal[1].of[1]

====
